---- MODULE Spec2Model ----
(***************************************************************************)
(* State-machine model of the video-call component                         *)
(* src/src/components/VideoCall.jsx (function App, lines 30-271): the      *)
(* effect that opens the signaling socket, acquires local media, creates   *)
(* the RTCPeerConnection and registers the relay handlers; the             *)
(* user-connected and signal handlers with their suspension points; the    *)
(* effect cleanup and endCall.                                             *)
(*                                                                         *)
(* The RTCPeerConnection is modelled by its signaling state machine and    *)
(* its operations chain (operations run one at a time, in the order they   *)
(* were invoked; a closed connection rejects new operations and never      *)
(* settles the pending ones).  The socket is modelled by its connection    *)
(* state: an emit on a socket that is not connected is buffered, and the   *)
(* buffer reaches the relay only if the socket connects afterwards.        *)
(***************************************************************************)
EXTENDS Naturals, Integers, Sequences, FiniteSets, TLC

\* ------------------------------------------------------------------ bounds
MaxRuns == 2          \* effect runs (mount + roomID changes) per component
MaxDeliveries == 2    \* relay events an arbitrary relay delivers
MaxCands == 1         \* local candidates an agent gathers before the null one
MaxShares == 2        \* getDisplayMedia calls per component

Peers == {"A", "B"}
Rooms == {"r1", "r2"}
RemoteIds == {"Z1"}   \* peer identifiers an arbitrary relay names

VARIABLES
  life,       \* [Peers -> "init" | "mounted" | "unmounted" | "reloading" | "gone"]
  roomID,     \* the roomID prop of each component
  socks,      \* per peer, the sockets io() created, one per effect run
  gum,        \* per peer, the getUserMedia promise of each effect run
  pcs,        \* per peer, the RTCPeerConnections created so far
  streams,    \* per peer, the local media streams acquired so far
  sent,       \* per peer, every socket emit call, in order
  nCreated,   \* per peer, descriptions created so far (fresh identities)
  caught,     \* per peer, the operations whose rejection a handler's catch absorbed
  nDelivered, \* relay events delivered so far
  inbox,      \* per peer, relay events routed to it and not yet delivered
  members,    \* per room, the socket identifiers that joined, in join order
  rcvd,       \* per peer, how many of its emit calls the relay has consumed
  ui,         \* per peer, the muted and videoOff state and the last toggle's report
  env         \* import.meta.env: the VITE_* variables the bundle was built with

compVars == <<life, roomID, socks, gum, pcs, streams, sent, nCreated, caught, ui>>
relayVars == <<inbox, members, rcvd>>
vars == <<life, roomID, socks, gum, pcs, streams, sent, nCreated, caught,
          nDelivered, inbox, members, rcvd, ui, env>>

\* ------------------------------------------------------------- data shapes
NoDesc == [type |-> "none", by |-> "", n |-> 0]
NoCand == [by |-> "", n |-> 0]
NoData == [sdp |-> NoDesc, candidate |-> NoCand]
Undefined == "undefined"

\* socket.id: assigned by the relay while the socket is connected
SockName(p, i) == p \o ToString(i)
SocketId(p, sv) ==
  IF Len(sv) > 0 /\ sv[Len(sv)].st = "connected" THEN SockName(p, Len(sv)) ELSE Undefined

\* import.meta.env: each VITE_* variable is a string or is not defined
NoEnv ==
  [VITE_STUN_URL |-> Undefined, VITE_TURN_URL |-> Undefined,
   VITE_TURN_USERNAME |-> Undefined, VITE_TURN_CREDENTIAL |-> Undefined]
Envs ==
  [VITE_STUN_URL : {Undefined, "stun:s1"}, VITE_TURN_URL : {Undefined, "turn:t1"},
   VITE_TURN_USERNAME : {Undefined, "user"}, VITE_TURN_CREDENTIAL : {Undefined, "secret"}]

\* the STUN address used when VITE_STUN_URL is not defined
DefaultStun == "stun:stun.l.google.com:19302"

\* ICE_SERVERS with the TURN entry spread in unconditionally
ICE_SERVERS_TurnAlways(e) ==
  <<[urls |-> IF e.VITE_STUN_URL # Undefined THEN e.VITE_STUN_URL ELSE DefaultStun,
     username |-> Undefined, credential |-> Undefined],
    [urls |-> e.VITE_TURN_URL, username |-> e.VITE_TURN_USERNAME,
     credential |-> e.VITE_TURN_CREDENTIAL]>>

\* ICE_SERVERS.iceServers: the STUN entry (no username, no credential), then
\* the TURN entry when VITE_TURN_URL is defined
ICE_SERVERS(e) ==
  <<[urls |-> IF e.VITE_STUN_URL # Undefined THEN e.VITE_STUN_URL ELSE DefaultStun,
     username |-> Undefined, credential |-> Undefined]>>
  \o (IF e.VITE_TURN_URL # Undefined
        THEN <<[urls |-> e.VITE_TURN_URL, username |-> e.VITE_TURN_USERNAME,
                credential |-> e.VITE_TURN_CREDENTIAL]>>
        ELSE <<>>)

\* a socket whose relay handlers are registered when it is created
NewSocketWithHandlers(room) ==
  [st |-> "connecting", opened |-> FALSE, on |-> <<1>>, room |-> room]

\* io(SIGNALING_SERVER_URL): a new socket, connecting in the background
NewSocket(room) == [st |-> "connecting", opened |-> FALSE, on |-> <<>>, room |-> room]

\* new RTCPeerConnection(ICE_SERVERS), created by effect run `run`, with the
\* stream's tracks added and onicecandidate set; videoSender is the track its
\* video sender transmits (0: the camera track, k: display track k); late records whether that
\* run had already been cleaned up or the call ended; iceLog records every
\* settled addIceCandidate
NewPC(run, late) ==
  [closed |-> FALSE, signalingState |-> "stable",
   tracks |-> {"audio", "video"}, onicecandidate |-> TRUE, videoSender |-> 0,
   pendingLocal |-> NoDesc, currentLocal |-> NoDesc,
   pendingRemote |-> NoDesc, currentRemote |-> NoDesc,
   chain |-> <<>>, iceLog |-> <<>>, ice |-> "new", iceFor |-> NoDesc, nCand |-> 0,
   run |-> run, late |-> late, iceServers |-> ICE_SERVERS(env)]

\* a stream of getUserMedia({video: true, audio: true}): one audio and one
\* video track, both enabled (audio, video: the tracks' enabled flags)
NewStream == [stopped |-> FALSE, audio |-> TRUE, video |-> TRUE]

\* pcRef.current / socketRef.current / localVideoRef.current.srcObject: the
\* refs are assigned at every creation and never cleared, so each names the
\* latest object (0: still undefined)
pcRef(p) == Len(pcs[p])
socketRef(p) == Len(socks[p])
srcObject(p) == Len(streams[p])

\* pc.localDescription / pc.remoteDescription getters
localDescription(pc) ==
  IF pc.pendingLocal # NoDesc THEN pc.pendingLocal ELSE pc.currentLocal
remoteDescription(pc) ==
  IF pc.pendingRemote # NoDesc THEN pc.pendingRemote ELSE pc.currentRemote

\* the effect run i of p has been cleaned up, or the call was ended
Ended(lf, sv, i) == i < Len(sv) \/ lf # "mounted"

\* socket.emit(ev, msg) on socketRef.current: one more entry of the emit log.
\* st is the socket's state at the call: "connected" goes to the relay at once,
\* "connecting" is buffered until the socket connects, "disconnected" is
\* buffered for good.
EmitOn(log, sv, msg) ==
  Append(log, [msg EXCEPT !.sock = Len(sv), !.st = sv[Len(sv)].st])

\* kind, nid, run: the handler run that emits; live0: its controller had not
\* ended when the handler started; late: it has ended at the emit
Msg(ev, room, to, from, data, kind, nid, run, live0, late) ==
  [ev |-> ev, room |-> room, to |-> to, from |-> from, data |-> data,
   kind |-> kind, nid |-> nid, run |-> run, live0 |-> live0, late |-> late,
   sock |-> 0, st |-> ""]

\* an emit call whose message reaches the relay
ReachedRelay(p, m) ==
  \/ m.st = "connected"
  \/ m.st = "connecting" /\ socks[p][m.sock].opened

\* ---------------------------------------------------------------- lifecycle
\* the body of the effect up to the getUserMedia call
EffectSocks(sv, room) == Append(sv, NewSocket(room))

\* the effect's cleanup function; refAttached: localVideoRef.current is set
CleanupSocks(sv) ==
  IF Len(sv) > 0 THEN [sv EXCEPT ![Len(sv)].st = "disconnected"] ELSE sv
StopTracks(stv) ==
  IF Len(stv) > 0 THEN [stv EXCEPT ![Len(stv)].stopped = TRUE] ELSE stv
CleanupStreams(stv, pv, refAttached) ==
  IF Len(pv) > 0 /\ refAttached THEN StopTracks(stv) ELSE stv
ClosePC(pc) == [pc EXCEPT !.closed = TRUE, !.signalingState = "closed", !.chain = <<>>]
CleanupPcs(pv) ==
  IF Len(pv) > 0 THEN [pv EXCEPT ![Len(pv)] = ClosePC(pv[Len(pv)])] ELSE pv

\* useState(false): microphone and camera start on, nothing is shared; report
\* is what the last toggle call told the user ("none": no toggle was called
\* yet, "nothing": the call returned without any report); pending are the
\* getDisplayMedia calls in flight, displays the display tracks obtained
InitialUi ==
  [muted |-> FALSE, videoOff |-> FALSE, report |-> "none",
   sharing |-> FALSE, pending |-> <<>>, displays |-> <<>>]

Start ==
  /\ life = [p \in Peers |-> "init"]
  /\ roomID = [p \in Peers |-> "r1"]
  /\ socks = [p \in Peers |-> <<>>]
  /\ gum = [p \in Peers |-> <<>>]
  /\ pcs = [p \in Peers |-> <<>>]
  /\ streams = [p \in Peers |-> <<>>]
  /\ sent = [p \in Peers |-> <<>>]
  /\ nCreated = [p \in Peers |-> 0]
  /\ caught = [p \in Peers |-> {}]
  /\ nDelivered = 0
  /\ inbox = [p \in Peers |-> <<>>]
  /\ members = [r \in Rooms |-> <<>>]
  /\ rcvd = [p \in Peers |-> 0]
  /\ ui = [p \in Peers |-> InitialUi]

\* the bundle was built with no VITE_* variable defined
Init == Start /\ env = NoEnv

\* the bundle was built with any of the configurations
ConfigInit == Start /\ env \in Envs

\* the component is rendered with roomID = r: the effect runs for the first time
Mount(p, r) ==
  /\ life[p] = "init"
  /\ life' = [life EXCEPT ![p] = "mounted"]
  /\ roomID' = [roomID EXCEPT ![p] = r]
  /\ socks' = [socks EXCEPT ![p] = EffectSocks(@, r)]
  /\ gum' = [gum EXCEPT ![p] = Append(@, "pending")]
  /\ UNCHANGED <<pcs, streams, sent, nCreated, caught, nDelivered, relayVars, env, ui>>

\* the roomID prop changes: cleanup of the previous run, then the effect again
RoomChange(p, r) ==
  /\ life[p] = "mounted"
  /\ r # roomID[p]
  /\ Len(socks[p]) < MaxRuns
  /\ roomID' = [roomID EXCEPT ![p] = r]
  /\ socks' = [socks EXCEPT ![p] = EffectSocks(CleanupSocks(@), r)]
  /\ streams' = [streams EXCEPT ![p] = CleanupStreams(@, pcs[p], TRUE)]
  /\ pcs' = [pcs EXCEPT ![p] = CleanupPcs(@)]
  /\ gum' = [gum EXCEPT ![p] = Append(@, "pending")]
  /\ UNCHANGED <<life, sent, nCreated, caught, nDelivered, relayVars, env, ui>>

\* the component unmounts: the cleanup runs; whether the video element's ref
\* is still attached when it runs depends on the React version
Unmount(p, refAttached) ==
  /\ life[p] = "mounted"
  /\ life' = [life EXCEPT ![p] = "unmounted"]
  /\ socks' = [socks EXCEPT ![p] = CleanupSocks(@)]
  /\ streams' = [streams EXCEPT ![p] = CleanupStreams(@, pcs[p], refAttached)]
  /\ pcs' = [pcs EXCEPT ![p] = CleanupPcs(@)]
  /\ UNCHANGED <<roomID, gum, sent, nCreated, caught, nDelivered, relayVars, env, ui>>

\* endCall: disconnect, stop the local tracks, window.location.reload()
EndCall(p) ==
  /\ life[p] \in {"mounted", "reloading"}
  /\ life' = [life EXCEPT ![p] = "reloading"]
  /\ socks' = [socks EXCEPT ![p] = CleanupSocks(@)]
  /\ streams' = [streams EXCEPT ![p] = StopTracks(@)]
  /\ UNCHANGED <<roomID, gum, pcs, sent, nCreated, caught, nDelivered, relayVars, env, ui>>

\* the reload replaces the document: nothing of the component runs any more
PageUnload(p) ==
  /\ life[p] = "reloading"
  /\ life' = [life EXCEPT ![p] = "gone"]
  /\ pcs' = [pcs EXCEPT ![p] = [j \in DOMAIN @ |-> ClosePC(@[j])]]
  /\ streams' = [streams EXCEPT ![p] = [j \in DOMAIN @ |-> [@[j] EXCEPT !.stopped = TRUE]]]
  /\ UNCHANGED <<roomID, socks, gum, sent, nCreated, caught, nDelivered, relayVars, env, ui>>

\* the socket of effect run i finishes connecting
SocketConnect(p, i) ==
  /\ life[p] # "gone"
  /\ i \in DOMAIN socks[p]
  /\ socks[p][i].st = "connecting"
  /\ socks' = [socks EXCEPT ![p][i].st = "connected", ![p][i].opened = TRUE]
  /\ UNCHANGED <<life, roomID, gum, pcs, streams, sent, nCreated, caught, nDelivered, relayVars, env, ui>>

\* GumReject with the continuation run from a finally: the failure is
\* reported and the agent is created all the same
GumRejectThenStart(p, i) ==
  /\ life[p] # "gone"
  /\ i \in DOMAIN gum[p]
  /\ gum[p][i] = "pending"
  /\ gum' = [gum EXCEPT ![p][i] = "rejected"]
  /\ pcs' = [pcs EXCEPT ![p] = Append(@, NewPC(i, Ended(life[p], socks[p], i)))]
  /\ socks' = [socks EXCEPT ![p][Len(socks[p])].on = Append(@, i)]
  /\ UNCHANGED <<life, roomID, streams, sent, nCreated, caught, nDelivered, relayVars, env, ui>>

\* getUserMedia of effect run i rejects: the .catch reports it
GumReject(p, i) ==
  /\ life[p] # "gone"
  /\ i \in DOMAIN gum[p]
  /\ gum[p][i] = "pending"
  /\ gum' = [gum EXCEPT ![p][i] = "rejected"]
  /\ UNCHANGED <<life, roomID, socks, pcs, streams, sent, nCreated, caught, nDelivered, relayVars, env, ui>>

\* GumResolve with the join-room emit duplicated
GumResolveJoinsTwice(p, i) ==
  /\ life[p] # "gone"
  /\ i \in DOMAIN gum[p]
  /\ gum[p][i] = "pending"
  /\ streams' = [streams EXCEPT ![p] = Append(@, NewStream)]
  /\ gum' = [gum EXCEPT ![p][i] = IF life[p] = "unmounted" THEN "threw" ELSE "resolved"]
  /\ IF life[p] = "unmounted"
       THEN UNCHANGED <<pcs, sent, socks>>
       ELSE LET join == Msg("join-room", socks[p][i].room, "", "", NoData,
                            "start", 0, i, TRUE, Ended(life[p], socks[p], i))
            IN /\ pcs' = [pcs EXCEPT ![p] = Append(@, NewPC(i, Ended(life[p], socks[p], i)))]
               /\ sent' = [sent EXCEPT ![p] = EmitOn(EmitOn(@, socks[p], join), socks[p], join)]
               /\ socks' = [socks EXCEPT ![p][Len(socks[p])].on = Append(@, i)]
  /\ UNCHANGED <<life, roomID, nCreated, caught, nDelivered, relayVars, env, ui>>

\* getUserMedia of effect run i resolves: the .then continuation.  With the
\* video element gone, line 52 throws and the .catch reports it.
GumResolve(p, i) ==
  /\ life[p] # "gone"
  /\ i \in DOMAIN gum[p]
  /\ gum[p][i] = "pending"
  /\ streams' = [streams EXCEPT ![p] = Append(@, NewStream)]
  /\ IF life[p] = "unmounted"
       THEN /\ gum' = [gum EXCEPT ![p][i] = "threw"]
            /\ UNCHANGED <<pcs, sent, socks>>
       ELSE /\ gum' = [gum EXCEPT ![p][i] = "resolved"]
            /\ pcs' = [pcs EXCEPT ![p] = Append(@, NewPC(i, Ended(life[p], socks[p], i)))]
            /\ sent' = [sent EXCEPT ![p] =
                 EmitOn(@, socks[p],
                        Msg("join-room", socks[p][i].room, "", "", NoData,
                            "start", 0, i, TRUE, Ended(life[p], socks[p], i)))]
            /\ socks' = [socks EXCEPT ![p][Len(socks[p])].on = Append(@, i)]
  /\ UNCHANGED <<life, roomID, nCreated, caught, nDelivered, relayVars, env, ui>>

\* ------------------------------------------------------------ media toggles
\* toggleMute written over getTracks(): every track follows the mute button
AfterToggleMuteAllTracks(stv, u) ==
  IF Len(stv) > 0
    THEN [streams |-> [stv EXCEPT ![Len(stv)].audio = u.muted, ![Len(stv)].video = u.muted],
          ui |-> [u EXCEPT !.muted = ~u.muted, !.report = "success"]]
    ELSE [streams |-> stv, ui |-> [u EXCEPT !.report = "nothing"]]

\* the body of toggleMute on the streams stv and the state u: flips muted and
\* sets the first audio track of the stream shown in the local video element
\* accordingly; without a stream it does nothing at all.  A stream of
\* getUserMedia({video: true, audio: true}) has both tracks, so the branch for
\* a missing track is never taken.
AfterToggleMute(stv, u) ==
  IF Len(stv) > 0
    THEN LET newMutedState == ~u.muted
         IN [streams |-> [stv EXCEPT ![Len(stv)].audio = ~newMutedState],
             ui |-> [u EXCEPT !.muted = newMutedState, !.report = "success"]]
    ELSE [streams |-> stv, ui |-> [u EXCEPT !.report = "nothing"]]

\* the body of toggleVideo: the same for videoOff and the first video track
AfterToggleVideo(stv, u) ==
  IF Len(stv) > 0
    THEN LET newVideoOffState == ~u.videoOff
         IN [streams |-> [stv EXCEPT ![Len(stv)].video = ~newVideoOffState],
             ui |-> [u EXCEPT !.videoOff = newVideoOffState, !.report = "success"]]
    ELSE [streams |-> stv, ui |-> [u EXCEPT !.report = "nothing"]]

\* the user clicks the mute button
ToggleMute(p) ==
  /\ life[p] \in {"mounted", "reloading"}
  /\ streams' = [streams EXCEPT ![p] = AfterToggleMute(streams[p], ui[p]).streams]
  /\ ui' = [ui EXCEPT ![p] = AfterToggleMute(streams[p], ui[p]).ui]
  /\ UNCHANGED <<life, roomID, socks, gum, pcs, sent, nCreated, caught, nDelivered, relayVars, env>>

\* the user clicks the video button
ToggleVideo(p) ==
  /\ life[p] \in {"mounted", "reloading"}
  /\ streams' = [streams EXCEPT ![p] = AfterToggleVideo(streams[p], ui[p]).streams]
  /\ ui' = [ui EXCEPT ![p] = AfterToggleVideo(streams[p], ui[p]).ui]
  /\ UNCHANGED <<life, roomID, socks, gum, pcs, sent, nCreated, caught, nDelivered, relayVars, env>>

\* ------------------------------------------------------------- screen share
\* the draft's toggleShare (VideoCall.jsx, lines 872-884, commented out)
\* pc.current.getSenders().find(s => s.track.kind === 'video').replaceTrack(track):
\* a closed agent rejects
ReplaceTrack(pv, k) ==
  IF pv[Len(pv)].closed THEN pv ELSE [pv EXCEPT ![Len(pv)].videoSender = k]

\* toggleShare run with `sharing` false in its closure, up to its await:
\* getDisplayMedia is called (by: what ran the function)
StartShare(u, by) == [u EXCEPT !.pending = Append(@, by)]

\* the user clicks the share button: toggleShare of the current render
ToggleShare(p) ==
  /\ life[p] = "mounted"
  /\ pcRef(p) > 0
  /\ IF ~ui[p].sharing
       THEN /\ Len(ui[p].pending) + Len(ui[p].displays) < MaxShares
            /\ ui' = [ui EXCEPT ![p] = StartShare(@, "click")]
            /\ UNCHANGED pcs
       ELSE /\ pcs' = [pcs EXCEPT ![p] = ReplaceTrack(@, 0)]
            /\ ui' = [ui EXCEPT ![p].sharing = FALSE]
  /\ UNCHANGED <<life, roomID, socks, gum, streams, sent, nCreated, caught, nDelivered, relayVars, env>>

\* getDisplayMedia resolves: the display track replaces the sender's track,
\* its onended is set to the toggleShare that is running, sharing becomes true
DisplayResolve(p) ==
  /\ life[p] \in {"mounted", "unmounted"}
  /\ ui[p].pending # <<>>
  /\ pcs' = [pcs EXCEPT ![p] = ReplaceTrack(@, Len(ui[p].displays) + 1)]
  /\ ui' = [ui EXCEPT ![p].pending = Tail(@),
                       ![p].displays = Append(@, [ended |-> FALSE]),
                       ![p].sharing = IF life[p] = "mounted" THEN TRUE ELSE @]
  /\ UNCHANGED <<life, roomID, socks, gum, streams, sent, nCreated, caught, nDelivered, relayVars, env>>

\* getDisplayMedia rejects (picker dismissed, or no user gesture): the async
\* function rejects and nobody handles it
DisplayReject(p) ==
  /\ life[p] \in {"mounted", "unmounted"}
  /\ ui[p].pending # <<>>
  /\ ui' = [ui EXCEPT ![p].pending = Tail(@), ![p].report = "nothing"]
  /\ UNCHANGED <<life, roomID, socks, gum, pcs, streams, sent, nCreated, caught, nDelivered, relayVars, env>>

\* display track k ends (the user stops sharing from the browser): its
\* onended runs the toggleShare that set it, whose closure has sharing false
TrackEnded(p, k) ==
  /\ life[p] \in {"mounted", "unmounted"}
  /\ k \in DOMAIN ui[p].displays
  /\ ~ui[p].displays[k].ended
  /\ Len(ui[p].pending) + Len(ui[p].displays) < MaxShares
  /\ ui' = [ui EXCEPT ![p] = StartShare([@ EXCEPT !.displays[k].ended = TRUE], "ended")]
  /\ UNCHANGED <<life, roomID, socks, gum, pcs, streams, sent, nCreated, caught, nDelivered, relayVars, env>>

\* ------------------------------------------------- the negotiation agent
\* one suspended handler run: the agent operation it awaits and what its
\* continuation needs (kind: which handler; peer: userId or envelope.from;
\* nid: the relay event that started it; run: the effect run that registered
\* the handler)
NoPre == [ss |-> "", local |-> FALSE, remote |-> FALSE]
Task(op, kind, nid, run, live0, peer, desc, cand) ==
  [op |-> op, kind |-> kind, nid |-> nid, run |-> run, live0 |-> live0,
   peer |-> peer, desc |-> desc, cand |-> cand, pre |-> NoPre]

\* what the agent looked like when an operation was invoked on it
Pre(pc) ==
  [ss |-> pc.signalingState, local |-> localDescription(pc) # NoDesc,
   remote |-> remoteDescription(pc) # NoDesc]

\* whether the agent accepts the operation in its current signaling state
Valid(pc, t) ==
  CASE t.op = "createOffer" -> pc.signalingState \in {"stable", "have-local-offer"}
    [] t.op = "createAnswer" -> pc.signalingState = "have-remote-offer"
    [] t.op = "setLocalDescription" ->
         IF t.desc.type = "offer"
           THEN pc.signalingState \in {"stable", "have-local-offer"}
           ELSE pc.signalingState = "have-remote-offer"
    [] t.op = "setRemoteDescription" ->
         IF t.desc.type = "offer"
           THEN pc.signalingState \in {"stable", "have-remote-offer", "have-local-offer"}
           ELSE pc.signalingState = "have-local-offer"
    [] t.op = "addIceCandidate" -> remoteDescription(pc) # NoDesc

\* the first local description starts the gathering; iceFor records it
StartGathering(pc) ==
  IF pc.ice = "new"
    THEN [pc EXCEPT !.ice = "gathering", !.iceFor = localDescription(pc)]
    ELSE pc

\* the effect of an accepted operation on the agent
Apply(pc, t) ==
  CASE t.op = "setLocalDescription" /\ t.desc.type = "offer" ->
         StartGathering([pc EXCEPT !.pendingLocal = t.desc,
                                   !.signalingState = "have-local-offer"])
    [] t.op = "setLocalDescription" /\ t.desc.type # "offer" ->
         StartGathering([pc EXCEPT !.currentLocal = t.desc,
                                   !.currentRemote = pc.pendingRemote,
                                   !.pendingLocal = NoDesc, !.pendingRemote = NoDesc,
                                   !.signalingState = "stable"])
    [] t.op = "setRemoteDescription" /\ t.desc.type = "offer" ->
         [pc EXCEPT !.pendingRemote = t.desc, !.pendingLocal = NoDesc,
                    !.signalingState = "have-remote-offer"]
    [] t.op = "setRemoteDescription" /\ t.desc.type # "offer" ->
         [pc EXCEPT !.currentRemote = t.desc, !.currentLocal = pc.pendingLocal,
                    !.pendingLocal = NoDesc, !.pendingRemote = NoDesc,
                    !.signalingState = "stable"]
    [] OTHER -> pc

\* an addIceCandidate whose rejection also discards the pending remote description
LogIceRollsBack(pc, t, ok) ==
  IF t.op = "addIceCandidate"
    THEN [pc EXCEPT !.iceLog = Append(@, [cand |-> t.cand, nid |-> t.nid,
                                           early |-> ~t.pre.remote, ok |-> ok]),
                    !.currentRemote = IF ok THEN @ ELSE NoDesc,
                    !.pendingRemote = IF ok THEN @ ELSE NoDesc]
    ELSE pc

\* a settled addIceCandidate, accepted or not
LogIce(pc, t, ok) ==
  IF t.op = "addIceCandidate"
    THEN [pc EXCEPT !.iceLog = Append(@, [cand |-> t.cand, nid |-> t.nid,
                                           early |-> ~t.pre.remote, ok |-> ok])]
    ELSE pc

\* pcRef.current.<op>(...): a closed agent rejects at once (the handler's
\* catch absorbs it), an open one queues the operation on its chain
\* a handler without its catch: the rejection goes unhandled
CatchNothing(c, ts) == c

\* .catch(error => ...) / catch (error) {...}: the handler absorbs the
\* rejections ts and ends
Catch(c, ts) == c \cup ts

\* a catch that also tears the agent down
OnErrorCloses(pv) == [j \in DOMAIN pv |-> ClosePC(pv[j])]

\* the body of the catch blocks: console.error and a toast, nothing else
OnError(pv) == pv

Prep(pv, t) == [t EXCEPT !.pre = Pre(pv[Len(pv)])]
Invoke(pv, t) ==
  IF pv[Len(pv)].closed
    THEN pv
    ELSE [pv EXCEPT ![Len(pv)].chain = Append(@, Prep(pv, t))]

\* the operations of ts a closed agent rejects at once
Refused(pv, ts) ==
  IF pv[Len(pv)].closed THEN {Prep(pv, ts[k]) : k \in DOMAIN ts} ELSE {}

RECURSIVE InvokeAll(_, _)
InvokeAll(pv, ts) ==
  IF ts = <<>> THEN pv ELSE InvokeAll(Invoke(pv, Head(ts)), Tail(ts))

\* ------------------------------------------------------------ relay handlers
\* OnUserConnected with a guard that ignores the notification once the agent
\* has a description
OnUserConnectedGuarded(p, s, userId, nid) ==
  LET on == socks[p][s].on
      ts == [k \in 1..Len(on) |->
               Task("createOffer", "user-connected", nid, on[k],
                    ~Ended(life[p], socks[p], on[k]), userId, NoDesc, NoCand)]
      idle == ~Pre(pcs[p][Len(pcs[p])]).local /\ ~Pre(pcs[p][Len(pcs[p])]).remote
  IN /\ pcs' = [pcs EXCEPT ![p] = IF Len(on) > 0 /\ idle THEN InvokeAll(@, ts) ELSE @]
     /\ caught' = [caught EXCEPT ![p] =
                     IF Len(on) > 0 /\ idle THEN @ \cup Refused(pcs[p], ts) ELSE @]
     /\ UNCHANGED <<life, roomID, socks, gum, streams, sent, nCreated, ui>>

\* socket.on('user-connected', userId => ...): every registered handler
\* starts pcRef.current.createOffer()
OnUserConnected(p, s, userId, nid) ==
  LET on == socks[p][s].on
      ts == [k \in 1..Len(on) |->
               Task("createOffer", "user-connected", nid, on[k],
                    ~Ended(life[p], socks[p], on[k]), userId, NoDesc, NoCand)]
  IN /\ pcs' = [pcs EXCEPT ![p] = IF Len(on) > 0 THEN InvokeAll(@, ts) ELSE @]
     /\ caught' = [caught EXCEPT ![p] =
                     IF Len(on) > 0 THEN Catch(@, Refused(pcs[p], ts)) ELSE @]
     /\ UNCHANGED <<life, roomID, socks, gum, streams, sent, nCreated, ui>>

\* OnSignal with the two branches swapped: data.candidate is tested first
OnSignalCandidateFirst(p, s, from, data, nid) ==
  LET on == socks[p][s].on
      ts == [k \in 1..Len(on) |->
               IF data.candidate # NoCand
                 THEN Task("addIceCandidate", "signal", nid, on[k],
                           ~Ended(life[p], socks[p], on[k]), from, NoDesc, data.candidate)
                 ELSE Task("setRemoteDescription", "signal", nid, on[k],
                           ~Ended(life[p], socks[p], on[k]), from, data.sdp, NoCand)]
      handled == Len(on) > 0 /\ (data.sdp # NoDesc \/ data.candidate # NoCand)
  IN /\ pcs' = [pcs EXCEPT ![p] = IF handled THEN InvokeAll(@, ts) ELSE @]
     /\ caught' = [caught EXCEPT ![p] =
                     IF handled THEN Catch(@, Refused(pcs[p], ts)) ELSE @]
     /\ UNCHANGED <<life, roomID, socks, gum, streams, sent, nCreated, ui>>

\* socket.on('signal', async ({from, data}) => ...): dispatch on data.sdp,
\* then on data.candidate, up to the first await
OnSignal(p, s, from, data, nid) ==
  LET on == socks[p][s].on
      ts == [k \in 1..Len(on) |->
               IF data.sdp # NoDesc
                 THEN Task("setRemoteDescription", "signal", nid, on[k],
                           ~Ended(life[p], socks[p], on[k]), from, data.sdp, NoCand)
                 ELSE Task("addIceCandidate", "signal", nid, on[k],
                           ~Ended(life[p], socks[p], on[k]), from, NoDesc, data.candidate)]
      handled == Len(on) > 0 /\ (data.sdp # NoDesc \/ data.candidate # NoCand)
  IN /\ pcs' = [pcs EXCEPT ![p] = IF handled THEN InvokeAll(@, ts) ELSE @]
     /\ caught' = [caught EXCEPT ![p] =
                     IF handled THEN Catch(@, Refused(pcs[p], ts)) ELSE @]
     /\ UNCHANGED <<life, roomID, socks, gum, streams, sent, nCreated, ui>>

\* SignalMsg addressed to the sender itself
SignalMsgToSelf(p, pv, t) ==
  Msg("signal", "", SocketId(p, socks[p]), SocketId(p, socks[p]),
      [sdp |-> localDescription(pv[Len(pv)]), candidate |-> NoCand],
      t.kind, t.nid, t.run, t.live0, Ended(life[p], socks[p], t.run))

\* the signal envelope both handlers emit once setLocalDescription resolved
SignalMsg(p, pv, t) ==
  Msg("signal", "", t.peer, SocketId(p, socks[p]),
      [sdp |-> localDescription(pv[Len(pv)]), candidate |-> NoCand],
      t.kind, t.nid, t.run, t.live0, Ended(life[p], socks[p], t.run))

\* the operation at the head of agent j's chain settles (fault: the agent
\* rejects it although its state allows it) and the awaiting handler resumes
\* up to its next await
OpComplete(p, j, fault) ==
  /\ life[p] # "gone"
  /\ j \in DOMAIN pcs[p]
  /\ ~pcs[p][j].closed
  /\ pcs[p][j].chain # <<>>
  /\ LET pc == pcs[p][j]
         t == Head(pc.chain)
         ok == ~fault /\ Valid(pc, t)
         pc1 == [LogIce(IF ok THEN Apply(pc, t) ELSE pc, t, ok)
                   EXCEPT !.chain = Tail(pc.chain)]
         pv1 == [pcs[p] EXCEPT ![j] = pc1]
         fresh == [type |-> IF t.op = "createOffer" THEN "offer" ELSE "answer",
                   by |-> p, n |-> nCreated[p] + 1]
         next(op, d) == Task(op, t.kind, t.nid, t.run, t.live0, t.peer, d, NoCand)
     IN CASE ok /\ t.op \in {"createOffer", "createAnswer"} ->
               /\ pcs' = [pcs EXCEPT ![p] = Invoke(pv1, next("setLocalDescription", fresh))]
               /\ caught' = [caught EXCEPT ![p] =
                    Catch(@, Refused(pv1, <<next("setLocalDescription", fresh)>>))]
               /\ nCreated' = [nCreated EXCEPT ![p] = @ + 1]
               /\ UNCHANGED sent
          [] ok /\ t.op = "setRemoteDescription" /\ t.desc.type = "offer" ->
               /\ pcs' = [pcs EXCEPT ![p] = Invoke(pv1, next("createAnswer", NoDesc))]
               /\ caught' = [caught EXCEPT ![p] =
                    Catch(@, Refused(pv1, <<next("createAnswer", NoDesc)>>))]
               /\ UNCHANGED <<sent, nCreated>>
          [] ok /\ t.op = "setLocalDescription" ->
               /\ pcs' = [pcs EXCEPT ![p] = pv1]
               /\ sent' = [sent EXCEPT ![p] = EmitOn(@, socks[p], SignalMsg(p, pv1, t))]
               /\ UNCHANGED <<nCreated, caught>>
          [] ~ok ->
               /\ pcs' = [pcs EXCEPT ![p] = OnError(pv1)]
               /\ caught' = [caught EXCEPT ![p] = Catch(@, {t})]
               /\ UNCHANGED <<sent, nCreated>>
          [] OTHER ->
               /\ pcs' = [pcs EXCEPT ![p] = pv1]
               /\ UNCHANGED <<sent, nCreated, caught>>
  /\ UNCHANGED <<life, roomID, socks, gum, streams, nDelivered, relayVars, env, ui>>

\* pc.onicecandidate with a candidate: the envelope goes to the room of the
\* effect run that created the agent
IceCandidate(p, j) ==
  /\ life[p] # "gone"
  /\ j \in DOMAIN pcs[p]
  /\ ~pcs[p][j].closed
  /\ pcs[p][j].ice = "gathering"
  /\ pcs[p][j].nCand < MaxCands
  /\ pcs' = [pcs EXCEPT ![p][j].nCand = @ + 1]
  /\ LET run == pcs[p][j].run
         c == [by |-> SockName(p, j), n |-> pcs[p][j].nCand + 1]
     IN sent' = [sent EXCEPT ![p] =
          EmitOn(@, socks[p],
                 Msg("signal", "", socks[p][run].room, SocketId(p, socks[p]),
                     [sdp |-> NoDesc, candidate |-> c],
                     "icecandidate", 0, run, TRUE, Ended(life[p], socks[p], run)))]
  /\ UNCHANGED <<life, roomID, socks, gum, streams, nCreated, caught, nDelivered, relayVars, env, ui>>

\* pc.onicecandidate with the null candidate: gathering is complete
IceComplete(p, j) ==
  /\ life[p] # "gone"
  /\ j \in DOMAIN pcs[p]
  /\ ~pcs[p][j].closed
  /\ pcs[p][j].ice = "gathering"
  /\ pcs[p][j].nCand = MaxCands
  /\ pcs' = [pcs EXCEPT ![p][j].ice = "complete"]
  /\ UNCHANGED <<life, roomID, socks, gum, streams, sent, nCreated, caught, nDelivered, relayVars, env, ui>>

\* ------------------------------------------------------- an arbitrary relay
RemoteOffer == [type |-> "offer", by |-> "Z", n |-> 1]
RemoteAnswer == [type |-> "answer", by |-> "Z", n |-> 1]
RemoteCand == [by |-> "Z", n |-> 1]
InData ==
  {[sdp |-> d, candidate |-> c] : d \in {NoDesc, RemoteOffer, RemoteAnswer},
                                  c \in {NoCand, RemoteCand}}

CanReceive(p, s) ==
  /\ life[p] \notin {"init", "gone"}
  /\ s \in DOMAIN socks[p]
  /\ socks[p][s].st = "connected"

\* the relay delivers user-connected(userId) on socket s
RelayUserConnected(p, s, userId) ==
  /\ CanReceive(p, s)
  /\ socks[p][s].on # <<>>
  /\ nDelivered < MaxDeliveries
  /\ nDelivered' = nDelivered + 1
  /\ OnUserConnected(p, s, userId, nDelivered + 1)
  /\ UNCHANGED <<relayVars, env>>

\* the relay delivers signal({from, data}) on socket s
RelaySignal(p, s, from, data) ==
  /\ CanReceive(p, s)
  /\ socks[p][s].on # <<>>
  /\ nDelivered < MaxDeliveries
  /\ nDelivered' = nDelivered + 1
  /\ OnSignal(p, s, from, data, nDelivered + 1)
  /\ UNCHANGED <<relayVars, env>>

\* ------------------------------------------------------ a routing relay
\* the peer and socket index a peer identifier names (<<"", 0>>: nobody)
Owner(id) ==
  LET all == UNION {{<<q, i>> : i \in DOMAIN socks[q]} : q \in Peers}
  IN IF \E o \in all : SockName(o[1], o[2]) = id
       THEN CHOOSE o \in all : SockName(o[1], o[2]) = id
       ELSE <<"", 0>>

RECURSIVE Route(_, _, _)
\* the inboxes after event e has been queued for each of the identifiers ids
Route(box, ids, e) ==
  IF ids = <<>> THEN box
  ELSE LET o == Owner(Head(ids))
           b1 == IF o[1] = "" THEN box
                 ELSE [box EXCEPT ![o[1]] = Append(@, [e EXCEPT !.sock = o[2]])]
       IN Route(b1, Tail(ids), e)

\* a relay that also notifies the socket that joins
OthersAndSelf(ids, id) == Append(SelectSeq(ids, LAMBDA x : x # id), id)

Others(ids, id) == SelectSeq(ids, LAMBDA x : x # id)

\* the relay consumes the next emit call of p, in emit order: join-room adds
\* the socket to the room and announces it to the members already there; a
\* signal goes to the peer it names, or to the other members of the room it
\* names.  What a socket buffered after disconnecting never arrives.
RelayRoute(p) ==
  /\ rcvd[p] < Len(sent[p])
  /\ LET m == sent[p][rcvd[p] + 1]
         id == SockName(p, m.sock)
         sk == socks[p][m.sock]
     IN /\ m.st = "connecting" => (sk.opened \/ sk.st = "disconnected")
        /\ rcvd' = [rcvd EXCEPT ![p] = @ + 1]
        /\ IF ~ReachedRelay(p, m)
             THEN UNCHANGED <<inbox, members>>
             ELSE IF m.ev = "join-room"
               THEN /\ members' = [members EXCEPT ![m.room] = Append(Others(@, id), id)]
                    /\ inbox' = Route(inbox, Others(members[m.room], id),
                                      [ev |-> "user-connected", sock |-> 0,
                                       from |-> id, data |-> NoData])
               ELSE /\ inbox' = Route(inbox,
                                      IF m.to \in Rooms
                                        THEN Others(members[m.to], id)
                                        ELSE <<m.to>>,
                                      [ev |-> "signal", sock |-> 0,
                                       from |-> m.from, data |-> m.data])
                    /\ UNCHANGED members
  /\ UNCHANGED <<compVars, nDelivered, env>>

\* the relay delivers the oldest event routed to p; a socket that is no longer
\* connected receives nothing
RelayDeliver(p) ==
  /\ inbox[p] # <<>>
  /\ inbox' = [inbox EXCEPT ![p] = Tail(@)]
  /\ nDelivered' = nDelivered + 1
  /\ LET e == Head(inbox[p])
     IN IF ~CanReceive(p, e.sock)
          THEN UNCHANGED compVars
          ELSE IF e.ev = "user-connected"
            THEN OnUserConnected(p, e.sock, e.from, nDelivered + 1)
            ELSE OnSignal(p, e.sock, e.from, e.data, nDelivered + 1)
  /\ UNCHANGED <<members, rcvd, env>>

\* ------------------------------------------------------------ specifications
\* one component, started once, against an arbitrary relay and an agent that
\* may reject any operation
Next ==
  \/ \E r \in Rooms : Mount("A", r)
  \/ \E b \in BOOLEAN : Unmount("A", b)
  \/ EndCall("A")
  \/ PageUnload("A")
  \/ \E i \in DOMAIN socks["A"] : SocketConnect("A", i)
  \/ \E i \in DOMAIN gum["A"] : GumReject("A", i)
  \/ \E i \in DOMAIN gum["A"] : GumResolve("A", i)
  \/ \E j \in DOMAIN pcs["A"], fault \in BOOLEAN : OpComplete("A", j, fault)
  \/ \E j \in DOMAIN pcs["A"] : IceCandidate("A", j)
  \/ \E j \in DOMAIN pcs["A"] : IceComplete("A", j)
  \/ \E s \in DOMAIN socks["A"], u \in RemoteIds : RelayUserConnected("A", s, u)
  \/ \E s \in DOMAIN socks["A"], u \in RemoteIds, d \in InData : RelaySignal("A", s, u, d)

Spec == Init /\ [][Next]_vars

\* the same component, first rendered with room r1, across changes of its
\* roomID prop
LifecycleNext ==
  \/ Mount("A", "r1")
  \/ \E r \in Rooms : RoomChange("A", r)
  \/ \E b \in BOOLEAN : Unmount("A", b)
  \/ EndCall("A")
  \/ PageUnload("A")
  \/ \E i \in DOMAIN socks["A"] : SocketConnect("A", i)
  \/ \E i \in DOMAIN gum["A"] : GumReject("A", i)
  \/ \E i \in DOMAIN gum["A"] : GumResolve("A", i)
  \/ \E j \in DOMAIN pcs["A"], fault \in BOOLEAN : OpComplete("A", j, fault)
  \/ \E j \in DOMAIN pcs["A"] : IceCandidate("A", j)
  \/ \E j \in DOMAIN pcs["A"] : IceComplete("A", j)
  \/ \E s \in DOMAIN socks["A"], u \in RemoteIds : RelayUserConnected("A", s, u)
  \/ \E s \in DOMAIN socks["A"], u \in RemoteIds, d \in InData : RelaySignal("A", s, u, d)

LifecycleSpec == Init /\ [][LifecycleNext]_vars

\* one component, started once, with its mute and video buttons, against an
\* arbitrary relay; agent operations do not fail and candidates are left out
ToggleNext ==
  \/ \E r \in Rooms : Mount("A", r)
  \/ \E b \in BOOLEAN : Unmount("A", b)
  \/ EndCall("A")
  \/ PageUnload("A")
  \/ \E i \in DOMAIN socks["A"] : SocketConnect("A", i)
  \/ \E i \in DOMAIN gum["A"] : GumReject("A", i)
  \/ \E i \in DOMAIN gum["A"] : GumResolve("A", i)
  \/ \E j \in DOMAIN pcs["A"] : OpComplete("A", j, FALSE)
  \/ \E s \in DOMAIN socks["A"], u \in RemoteIds : RelayUserConnected("A", s, u)
  \/ \E s \in DOMAIN socks["A"], u \in RemoteIds, d \in InData : RelaySignal("A", s, u, d)
  \/ ToggleMute("A")
  \/ ToggleVideo("A")

ToggleSpec == Init /\ [][ToggleNext]_vars

\* the media side alone, across roomID changes: acquisition, toggles, teardown
MediaNext ==
  \/ \E r \in Rooms : Mount("A", r)
  \/ \E r \in Rooms : RoomChange("A", r)
  \/ \E b \in BOOLEAN : Unmount("A", b)
  \/ EndCall("A")
  \/ PageUnload("A")
  \/ \E i \in DOMAIN socks["A"] : SocketConnect("A", i)
  \/ \E i \in DOMAIN gum["A"] : GumReject("A", i)
  \/ \E i \in DOMAIN gum["A"] : GumResolve("A", i)
  \/ ToggleMute("A")
  \/ ToggleVideo("A")

MediaSpec == Init /\ [][MediaNext]_vars

\* the component with the draft's share button
ShareNext ==
  \/ \E r \in Rooms : Mount("A", r)
  \/ \E r \in Rooms : RoomChange("A", r)
  \/ \E b \in BOOLEAN : Unmount("A", b)
  \/ \E i \in DOMAIN socks["A"] : SocketConnect("A", i)
  \/ \E i \in DOMAIN gum["A"] : GumResolve("A", i)
  \/ ToggleMute("A")
  \/ ToggleVideo("A")
  \/ ToggleShare("A")
  \/ DisplayResolve("A")
  \/ DisplayReject("A")
  \/ \E k \in DOMAIN ui["A"].displays : TrackEnded("A", k)

ShareSpec == Init /\ [][ShareNext]_vars

\* two components in room r1 and a FIFO relay between them; no agent
\* operation fails; every pending callback eventually runs
TwoPeerNext ==
  \/ \E p \in Peers : Mount(p, "r1")
  \/ \E p \in Peers : \E i \in DOMAIN socks[p] : SocketConnect(p, i)
  \/ \E p \in Peers : \E i \in DOMAIN gum[p] : GumResolve(p, i)
  \/ \E p \in Peers : \E j \in DOMAIN pcs[p] : OpComplete(p, j, FALSE)
  \/ \E p \in Peers : \E j \in DOMAIN pcs[p] : IceCandidate(p, j)
  \/ \E p \in Peers : \E j \in DOMAIN pcs[p] : IceComplete(p, j)
  \/ \E p \in Peers : RelayRoute(p)
  \/ \E p \in Peers : RelayDeliver(p)

TwoPeerSpec == Init /\ [][TwoPeerNext]_vars /\ WF_vars(TwoPeerNext)

\* the component under every build configuration: mount, socket, media
\* acquisition and roomID change, each agent created with ICE_SERVERS
ConfigNext ==
  \/ Mount("A", "r1")
  \/ \E r \in Rooms : RoomChange("A", r)
  \/ \E ra \in BOOLEAN : Unmount("A", ra)
  \/ \E i \in 1..MaxRuns : SocketConnect("A", i)
  \/ \E i \in 1..MaxRuns : GumResolve("A", i)
  \/ \E i \in 1..MaxRuns : GumReject("A", i)

ConfigSpec == ConfigInit /\ [][ConfigNext]_vars

\* ==================================================================== claims
Chains(p) == UNION {{<<j, k>> : k \in DOMAIN pcs[p][j].chain} : j \in DOMAIN pcs[p]}
AgentState(pc) ==
  <<pc.signalingState, pc.pendingLocal, pc.currentLocal, pc.pendingRemote, pc.currentRemote>>
\* the head operation of agent j of A settles in this step
Settles(j) == \E f \in BOOLEAN : OpComplete("A", j, f)
HeadIs(j, op) == pcs["A"][j].chain # <<>> /\ Head(pcs["A"][j].chain).op = op

\* ------------------------------------------------------------------------ C1
\* the offer envelopes that reached the relay for the relay event n
OffersFor(p, n) ==
  {k \in DOMAIN sent[p] : /\ sent[p][k].kind = "user-connected"
                          /\ sent[p][k].nid = n
                          /\ ReachedRelay(p, sent[p][k])}

\* C1: a user-connected notification never yields more than one offer
\* envelope at the relay, and each one is addressed to the notified peer.
C1_OneOfferPerNotification ==
  \A p \in Peers : \A n \in 1..nDelivered :
    /\ Cardinality(OffersFor(p, n)) <= 1
    /\ \A k \in OffersFor(p, n) : sent[p][k].to \in RemoteIds

\* ------------------------------------------------------------------------ C2
Connected(p) ==
  /\ pcRef(p) > 0
  /\ pcs[p][pcRef(p)].signalingState = "stable"
  /\ pcs[p][pcRef(p)].currentLocal # NoDesc
  /\ pcs[p][pcRef(p)].currentRemote # NoDesc
BothConnected == \A p \in Peers : Connected(p)

SdpSent(p, type) ==
  {k \in DOMAIN sent[p] : sent[p][k].ev = "signal" /\ sent[p][k].data.sdp.type = type}

\* a offered, b answered: one offer from a to b, one answer from b to a, no
\* other description on the wire, and each agent holds the other's description
Exchanged(a, b) ==
  /\ members["r1"] # <<>> /\ members["r1"][1] = SockName(a, 1)
  /\ Cardinality(SdpSent(a, "offer")) = 1 /\ SdpSent(a, "answer") = {}
  /\ Cardinality(SdpSent(b, "answer")) = 1 /\ SdpSent(b, "offer") = {}
  /\ \A k \in SdpSent(a, "offer") :
       /\ sent[a][k].to = SockName(b, 1) /\ sent[a][k].from = SockName(a, 1)
       /\ pcs[b][1].currentRemote = sent[a][k].data.sdp
       /\ pcs[a][1].currentLocal = sent[a][k].data.sdp
  /\ \A k \in SdpSent(b, "answer") :
       /\ sent[b][k].to = SockName(a, 1) /\ sent[b][k].from = SockName(b, 1)
       /\ pcs[a][1].currentRemote = sent[b][k].data.sdp
       /\ pcs[b][1].currentLocal = sent[b][k].data.sdp

\* C2: in the two-peer run the peer already in the room offers to the joining
\* peer, the joining peer answers, and eventually both are Connected for good.
C2_TwoPeersConnect ==
  /\ [](BothConnected => \E a \in Peers : \E b \in Peers \ {a} : Exchanged(a, b))
  /\ <>[]BothConnected

\* A joined first, B was reported to A, and both are Connected
C2_Witness == BothConnected /\ Exchanged("A", "B")

\* ------------------------------------------------------------------------ C3
\* C3: once a remote description is applied and the agent is idle, every
\* candidate that was delivered before any remote description has been
\* applied to the agent exactly once.
C3_EarlyCandidateApplied ==
  \A p \in Peers : \A j \in DOMAIN pcs[p] :
    LET pc == pcs[p][j]
    IN (~pc.closed /\ remoteDescription(pc) # NoDesc /\ pc.chain = <<>>) =>
         \A k \in DOMAIN pc.iceLog :
           pc.iceLog[k].early =>
             Cardinality({m \in DOMAIN pc.iceLog :
                            pc.iceLog[m].nid = pc.iceLog[k].nid /\ pc.iceLog[m].ok}) = 1

\* ------------------------------------------------------------------------ C4
\* C4: addIceCandidate is never invoked on an agent that has no remote
\* description.
C4_NoCandidateBeforeRemote ==
  \A p \in Peers : \A c \in Chains(p) :
    pcs[p][c[1]].chain[c[2]].op = "addIceCandidate" => pcs[p][c[1]].chain[c[2]].pre.remote

\* ------------------------------------------------------------------------ C5
\* C5: a relay handler that was started before its controller ended makes no
\* signal emit once the controller has ended.
C5_NoEmitAfterEnded ==
  \A p \in Peers : \A k \in DOMAIN sent[p] :
    (sent[p][k].kind \in {"user-connected", "signal"} /\ sent[p][k].live0)
      => ~sent[p][k].late

\* ------------------------------------------------------------------------ C6
OpenAgents(p) == {j \in DOMAIN pcs[p] : ~pcs[p][j].closed}

\* C6: a component never has more than one open agent.
C6_AtMostOneAgent == \A p \in Peers : Cardinality(OpenAgents(p)) <= 1

\* ------------------------------------------------------------------------ C7
\* C7: a media acquisition that resolves after its controller has ended
\* creates no agent and emits no join-room.
C7_NoResurrection ==
  \A p \in Peers :
    /\ \A j \in DOMAIN pcs[p] : ~pcs[p][j].late
    /\ \A k \in DOMAIN sent[p] : sent[p][k].ev = "join-room" => ~sent[p][k].late

\* ------------------------------------------------------------------------ C8
\* the head of agent j's chain re-applies the remote description it has
Reapplies(j) ==
  /\ HeadIs(j, "setRemoteDescription")
  /\ Head(pcs["A"][j].chain).desc = remoteDescription(pcs["A"][j])

\* C8: re-applying the remote description the agent already has leaves the
\* agent's signaling state and descriptions as they were.
C8_DuplicateIsNoOp ==
  [][\A j \in DOMAIN pcs["A"] :
       (Reapplies(j) /\ Settles(j)) =>
         AgentState(pcs'["A"][j]) = AgentState(pcs["A"][j])]_vars

\* ------------------------------------------------------------------------ C9
\* C9 as claimed: setRemoteDescription is invoked with an answer only while
\* the agent has a local offer outstanding.
C9_StaleAnswerNotInvoked ==
  \A p \in Peers : \A c \in Chains(p) :
    LET t == pcs[p][c[1]].chain[c[2]]
    IN (t.op = "setRemoteDescription" /\ t.desc.type = "answer")
         => t.pre.ss = "have-local-offer"

\* C9 as amended: an answer passed to setRemoteDescription is applied only if
\* the agent has a local offer outstanding when the operation runs; otherwise
\* the agent rejects it, the rejection is caught, and the agent, the emit log
\* and the rest of the chain are left as they were.
C9_AnswerNeedsLocalOffer ==
  [][\A j \in DOMAIN pcs["A"] :
       ( /\ HeadIs(j, "setRemoteDescription")
         /\ Head(pcs["A"][j].chain).desc.type = "answer"
         /\ Settles(j) ) =>
         \/ /\ pcs["A"][j].signalingState = "have-local-offer"
            /\ pcs["A"][j].pendingLocal.type = "offer"
         \/ /\ AgentState(pcs'["A"][j]) = AgentState(pcs["A"][j])
            /\ pcs'["A"][j].chain = Tail(pcs["A"][j].chain)
            /\ Head(pcs["A"][j].chain) \in caught'["A"]
            /\ sent' = sent]_vars

\* an answer that arrived with no local offer outstanding was rejected and
\* caught, and the agent still has no remote description
C9_Witness ==
  \E t \in caught["A"] :
    /\ t.op = "setRemoteDescription" /\ t.desc.type = "answer"
    /\ t.pre.ss = "stable"
    /\ pcRef("A") > 0 /\ remoteDescription(pcs["A"][pcRef("A")]) = NoDesc

StartedBy(p, i) ==
  [agents |-> {j \in DOMAIN pcs[p] : pcs[p][j].run = i},
   handlers |-> {s \in DOMAIN socks[p] :
                   \E k \in DOMAIN socks[p][s].on : socks[p][s].on[k] = i},
   emits |-> {k \in DOMAIN sent[p] : sent[p][k].run = i}]
NothingStarted == [agents |-> {}, handlers |-> {}, emits |-> {}]

\* C11: an effect run whose media acquisition was rejected (and reported by
\* the .catch) has created no agent, registered no relay handler and emitted
\* nothing, join-room included.
C11_FailedAcquisitionStartsNothing ==
  \A p \in Peers : \A i \in DOMAIN gum[p] :
    gum[p][i] = "rejected" => StartedBy(p, i) = NothingStarted

\* the acquisition failed while the socket opened by the same run is connected
C11_Witness ==
  /\ gum["A"] = <<"rejected">>
  /\ socks["A"][1].st = "connected"
  /\ life["A"] = "mounted"

\* ----------------------------------------------------------------------- C12
JoinRooms(p, i) ==
  {k \in DOMAIN sent[p] : sent[p][k].ev = "join-room" /\ sent[p][k].run = i}

\* C12: the continuation of a successful acquisition creates the agent with
\* both tracks added and the candidate callback set, emits one join-room
\* carrying the room identifier with that agent in place, and registers the
\* relay handlers in the same step; a started run has exactly one join-room,
\* and every relay event that was handled found the handlers registered.
C12_StartJoinsOnce ==
  /\ [](\A i \in DOMAIN gum["A"] :
          /\ gum["A"][i] = "resolved" => Cardinality(JoinRooms("A", i)) = 1
          /\ gum["A"][i] # "resolved" => JoinRooms("A", i) = {})
  /\ [](\A c \in Chains("A") :
          gum["A"][pcs["A"][c[1]].chain[c[2]].run] = "resolved")
  /\ [][\A i \in DOMAIN gum["A"] :
         (GumResolve("A", i) /\ gum'["A"][i] = "resolved") =>
           /\ Len(pcs'["A"]) = Len(pcs["A"]) + 1
           /\ LET pc == pcs'["A"][pcRef("A") + 1]
              IN /\ ~pc.closed /\ pc.run = i
                 /\ pc.tracks = {"audio", "video"} /\ pc.onicecandidate
           /\ Len(sent'["A"]) = Len(sent["A"]) + 1
           /\ LET join == sent'["A"][Len(sent'["A"])]
              IN join.ev = "join-room" /\ join.room = roomID["A"]
           /\ \E k \in DOMAIN socks'["A"][socketRef("A")].on :
                socks'["A"][socketRef("A")].on[k] = i]_vars

\* the start succeeded, its join-room reached the relay, and a relay event
\* has since been handled
C12_Witness ==
  /\ gum["A"] = <<"resolved">>
  /\ \E k \in JoinRooms("A", 1) : ReachedRelay("A", sent["A"][k])
  /\ nDelivered > 0

\* ----------------------------------------------------------------------- C13
\* the rejection of the head operation of agent j is caught in this step
Fails(j) ==
  /\ Head(pcs["A"][j].chain) \in caught'["A"]
  /\ Head(pcs["A"][j].chain) \notin caught["A"]

C14_FailureIsAbsorbed ==
  [][\A j \in DOMAIN pcs["A"] :
       Settles(j) =>
         /\ ~Valid(pcs["A"][j], Head(pcs["A"][j].chain)) => Fails(j)
         /\ Fails(j) =>
              /\ AgentState(pcs'["A"][j]) = AgentState(pcs["A"][j])
              /\ ~pcs'["A"][j].closed
              /\ pcs'["A"][j].chain = Tail(pcs["A"][j].chain)
              /\ \A i \in DOMAIN pcs["A"] \ {j} : pcs'["A"][i] = pcs["A"][i]
              /\ socks' = socks /\ life' = life /\ streams' = streams
              /\ sent' = sent /\ nCreated' = nCreated]_vars

\* a rejection was caught on the open agent and a relay event delivered
\* afterwards was handled through to its emit
C14_Witness ==
  /\ pcRef("A") = 1 /\ ~pcs["A"][1].closed
  /\ socks["A"][1].st = "connected" /\ socks["A"][1].on # <<>>
  /\ \E t \in caught["A"] : \E k \in DOMAIN sent["A"] :
       /\ t.nid > 0 /\ sent["A"][k].nid > t.nid
       /\ sent["A"][k].kind \in {"user-connected", "signal"}

\* ----------------------------------------------------------------------- C15
\* every track of every acquired stream is stopped / every agent is closed /
\* the current socket is disconnected
TracksStopped(stv) == \A k \in DOMAIN stv : stv[k].stopped
AgentsClosed(pv) == \A j \in DOMAIN pv : pv[j].closed
ChannelClosed(sv) == \A i \in DOMAIN sv : sv[i].st = "disconnected"

\* the controller of A is ended in this step, by endCall or by the cleanup
Ends == EndCall("A") \/ \E b \in BOOLEAN : Unmount("A", b)

\* C15: when end returns, the local tracks are stopped, the agent is closed
\* and the socket is disconnected; a second end changes nothing.
C15_EndIsCompleteAndIdempotent ==
  [][Ends =>
       /\ TracksStopped(streams'["A"])
       /\ AgentsClosed(pcs'["A"])
       /\ ChannelClosed(socks'["A"])
       /\ life["A"] # "mounted" => UNCHANGED <<socks, streams, pcs, sent, caught>>]_vars

\* ----------------------------------------------------------------------- C16
\* C16: once the component has been torn down, by the cleanup or by endCall,
\* every acquired track is stopped, every created agent is closed and the
\* socket is disconnected, whenever in the lifecycle the teardown came.
C16_TeardownReleasesAll ==
  life["A"] \in {"unmounted", "reloading"} =>
    /\ TracksStopped(streams["A"])
    /\ AgentsClosed(pcs["A"])
    /\ ChannelClosed(socks["A"])

\* ----------------------------------------------------------------------- C17
\* the flags a toggle is about: the enabled flags of the tracks shown in the
\* local video element, muted and videoOff
MediaFlags(stv, u) ==
  [audio |-> stv[Len(stv)].audio, video |-> stv[Len(stv)].video,
   muted |-> u.muted, videoOff |-> u.videoOff]

\* C17: with a local stream in place, two toggleMute calls in a row, and two
\* toggleVideo calls in a row, bring the track's enabled flag and the muted /
\* videoOff flag back to what they were.
C17_ToggleTwiceRestores ==
  (life["A"] \in {"mounted", "reloading"} /\ srcObject("A") > 0) =>
    LET m1 == AfterToggleMute(streams["A"], ui["A"])
        m2 == AfterToggleMute(m1.streams, m1.ui)
        v1 == AfterToggleVideo(streams["A"], ui["A"])
        v2 == AfterToggleVideo(v1.streams, v1.ui)
    IN /\ MediaFlags(m2.streams, m2.ui) = MediaFlags(streams["A"], ui["A"])
       /\ MediaFlags(v2.streams, v2.ui) = MediaFlags(streams["A"], ui["A"])

\* ----------------------------------------------------------------------- C18
\* C18: a toggleMute or toggleVideo call emits nothing, touches no agent (no
\* operation invoked, descriptions as they were) and no socket, and leaves
\* the other kind's track flags and state flag alone.
C18_TogglesAreLocal ==
  [][/\ (ToggleMute("A") \/ ToggleVideo("A")) =>
          /\ sent' = sent /\ pcs' = pcs /\ socks' = socks /\ nCreated' = nCreated
          /\ Len(streams'["A"]) = Len(streams["A"])
          /\ \A k \in DOMAIN streams["A"] :
               streams'["A"][k].stopped = streams["A"][k].stopped
     /\ ToggleMute("A") =>
          /\ ui'["A"].videoOff = ui["A"].videoOff
          /\ \A k \in DOMAIN streams["A"] : streams'["A"][k].video = streams["A"][k].video
     /\ ToggleVideo("A") =>
          /\ ui'["A"].muted = ui["A"].muted
          /\ \A k \in DOMAIN streams["A"] : streams'["A"][k].audio = streams["A"][k].audio]_vars

\* the microphone was muted and the camera left on while the agent holds an
\* applied offer/answer pair and its answer was emitted
C18_Witness ==
  /\ ui["A"].muted /\ ~ui["A"].videoOff
  /\ srcObject("A") = 1 /\ ~streams["A"][1].audio /\ streams["A"][1].video
  /\ Connected("A")
  /\ SdpSent("A", "answer") # {}

\* ----------------------------------------------------------------------- C19
\* C19: a toggleMute or toggleVideo call made while the local video element
\* shows no stream changes neither flag and reports an error.
C19_ToggleWithoutStreamReports ==
  [][((ToggleMute("A") \/ ToggleVideo("A")) /\ srcObject("A") = 0) =>
       /\ ui'["A"].muted = ui["A"].muted
       /\ ui'["A"].videoOff = ui["A"].videoOff
       /\ streams' = streams
       /\ ui'["A"].report = "error"]_vars

\* ----------------------------------------------------------------------- C20
\* C20: when the display track being shared ends, the agent's video sender
\* is back on the camera track and sharing is false as soon as the track's
\* onended has run, and no new display capture has been requested.
C20_EndOfShareReverts ==
  [][\A k \in DOMAIN ui["A"].displays :
       ( /\ TrackEnded("A", k)
         /\ life["A"] = "mounted"
         /\ ui["A"].sharing
         /\ pcs["A"][pcRef("A")].videoSender = k ) =>
         /\ pcs'["A"][pcRef("A")].videoSender = 0
         /\ ~ui'["A"].sharing
         /\ ui'["A"].pending = ui["A"].pending]_vars

\* ----------------------------------------------------------------------- C21
\* the sender's replaceTrack is refused in the current state of the agent
ReplaceRefused == pcRef("A") > 0 /\ pcs["A"][pcRef("A")].closed

\* C21: when a share toggle fails, because getDisplayMedia rejects or
\* because the sender refuses the replacement track, sharing keeps its value
\* and an error is reported.
C21_ShareFailureReported ==
  [][( \/ DisplayReject("A")
       \/ DisplayResolve("A") /\ ReplaceRefused
       \/ ToggleShare("A") /\ ui["A"].sharing /\ ReplaceRefused ) =>
       /\ ui'["A"].sharing = ui["A"].sharing
       /\ ui'["A"].report = "error"]_vars

\* ----------------------------------------------------------------------- C22
\* C22: every signal envelope in the emit log carries either a description
\* or a candidate, never both and never neither.
C22_OnePayload ==
  \A p \in Peers : \A k \in DOMAIN sent[p] :
    sent[p][k].ev = "signal" =>
      (sent[p][k].data.sdp # NoDesc) # (sent[p][k].data.candidate # NoCand)

\* C23: the server configuration of every agent starts with the STUN entry
\* (the configured address, or the default one), is followed by the TURN entry
\* carrying the configured username and credential exactly when a TURN
\* address is configured, and has exactly one entry otherwise.
C23_ServerConfiguration ==
  \A k \in DOMAIN pcs["A"] :
    LET c == pcs["A"][k].iceServers IN
    /\ Len(c) >= 1
    /\ c[1].urls = (IF env.VITE_STUN_URL # Undefined THEN env.VITE_STUN_URL ELSE DefaultStun)
    /\ env.VITE_TURN_URL # Undefined =>
          /\ Len(c) = 2
          /\ c[2] = [urls |-> env.VITE_TURN_URL, username |-> env.VITE_TURN_USERNAME,
                     credential |-> env.VITE_TURN_CREDENTIAL]
    /\ env.VITE_TURN_URL = Undefined => Len(c) = 1

\* an agent was created by a build without a TURN address
C23_Witness ==
  /\ env.VITE_TURN_URL = Undefined
  /\ pcRef("A") > 0
  /\ ~pcs["A"][pcRef("A")].closed

\* ----------------------------------------------------------------------- C24
\* an envelope of the user-connected path, or one that carries an offer
OfferEnvelope(m) ==
  m.ev = "signal" /\ (m.kind = "user-connected" \/ m.data.sdp.type = "offer")

\* C24: an offer envelope is emitted only by the step in which the
\* setLocalDescription(offer) of a user-connected handler succeeds, the offer
\* having come from that handler's successful createOffer; when createOffer
\* or setLocalDescription fails in a user-connected handler, the handler
\* emits nothing, then or later; so without user-connected no offer is emitted.
C24_OfferOnlyAfterBothSucceed ==
  [][/\ \A k \in DOMAIN sent'["A"] \ DOMAIN sent["A"] :
          OfferEnvelope(sent'["A"][k]) =>
            \E j \in DOMAIN pcs["A"] :
              /\ Settles(j) /\ HeadIs(j, "setLocalDescription") /\ ~Fails(j)
              /\ LET t == Head(pcs["A"][j].chain)
                     m == sent'["A"][k]
                 IN /\ t.kind = "user-connected" /\ m.kind = "user-connected"
                    /\ m.nid = t.nid /\ m.run = t.run
                    /\ t.desc.type = "offer" /\ t.desc.by = "A"
                    /\ t.desc.n \in 1..nCreated["A"]
                    /\ Valid(pcs["A"][j], t)
                    /\ pcs'["A"][j].pendingLocal = t.desc
     /\ \A j \in DOMAIN pcs["A"] :
          (Settles(j) /\ Head(pcs["A"][j].chain).kind = "user-connected" /\ Fails(j)) =>
            /\ sent' = sent /\ nCreated' = nCreated
            /\ pcs'["A"][j].chain = Tail(pcs["A"][j].chain)
            /\ \A i \in DOMAIN pcs["A"] \ {j} : pcs'["A"][i] = pcs["A"][i]
     /\ \A t \in caught'["A"] : t.kind = "user-connected" =>
          \A k \in DOMAIN sent'["A"] :
            ~(/\ sent'["A"][k].kind = "user-connected"
              /\ sent'["A"][k].nid = t.nid /\ sent'["A"][k].run = t.run)]_vars

\* ----------------------------------------------------------------------- C25
\* an envelope the signal handler treats as a candidate: no sdp, a candidate
CandidateData(d) == d.sdp = NoDesc /\ d.candidate # NoCand

\* a candidate envelope is delivered to A, or an addIceCandidate of A settles
DeliversCandidate ==
  \E s \in DOMAIN socks["A"], u \in RemoteIds, d \in InData :
    CandidateData(d) /\ RelaySignal("A", s, u, d)
SettlesCandidate(j) == HeadIs(j, "addIceCandidate") /\ Settles(j)

\* C25: the delivery of a candidate envelope and the settling of its
\* addIceCandidate emit nothing, leave the component's lifecycle, sockets,
\* streams and toggles alone, create no description and leave every agent's
\* signaling state and descriptions as they were; the delivery only queues
\* addIceCandidate on the current agent, and the settling only removes it from
\* the chain and records the candidate.
C25_CandidateChangesNothingElse ==
  [][/\ (DeliversCandidate \/ \E j \in DOMAIN pcs["A"] : SettlesCandidate(j)) =>
          /\ UNCHANGED <<life, roomID, socks, gum, streams, sent, nCreated, ui>>
          /\ DOMAIN pcs'["A"] = DOMAIN pcs["A"]
          /\ \A i \in DOMAIN pcs["A"] :
               /\ AgentState(pcs'["A"][i]) = AgentState(pcs["A"][i])
               /\ pcs'["A"][i].closed = pcs["A"][i].closed
     /\ DeliversCandidate =>
          \A i \in DOMAIN pcs["A"] :
            /\ pcs'["A"][i].iceLog = pcs["A"][i].iceLog
            /\ i # pcRef("A") => pcs'["A"][i] = pcs["A"][i]
            /\ \A k \in DOMAIN pcs'["A"][i].chain \ DOMAIN pcs["A"][i].chain :
                 pcs'["A"][i].chain[k].op = "addIceCandidate"
     /\ \A j \in DOMAIN pcs["A"] : SettlesCandidate(j) =>
          LET t == Head(pcs["A"][j].chain) IN
          /\ pcs'["A"][j].chain = Tail(pcs["A"][j].chain)
          /\ Len(pcs'["A"][j].iceLog) = Len(pcs["A"][j].iceLog) + 1
          /\ pcs'["A"][j].iceLog[Len(pcs'["A"][j].iceLog)].cand = t.cand
          /\ \A i \in DOMAIN pcs["A"] \ {j} : pcs'["A"][i] = pcs["A"][i]]_vars

\* a candidate envelope was handled and its candidate added to an agent of A
C25_Witness ==
  \E j \in DOMAIN pcs["A"] :
    \E k \in DOMAIN pcs["A"][j].iceLog : pcs["A"][j].iceLog[k].ok

\* ----------------------------------------------------------------------- C26
\* C26: each candidate an agent reports makes exactly one emit, a signal
\* envelope that carries that candidate and no description, is addressed to
\* the component's room and has the socket's identifier as from; the null
\* candidate that ends the gathering makes no emit.
C26_OneEnvelopePerCandidate ==
  [][\A p \in Peers : \A j \in DOMAIN pcs[p] :
       /\ IceCandidate(p, j) =>
            /\ Len(sent'[p]) = Len(sent[p]) + 1
            /\ LET m == sent'[p][Len(sent'[p])]
               IN /\ m.ev = "signal"
                  /\ m.data.sdp = NoDesc
                  /\ m.data.candidate = [by |-> SockName(p, j), n |-> pcs'[p][j].nCand]
                  /\ m.to = roomID[p]
                  /\ m.from = SockName(p, socketRef(p))
       /\ IceComplete(p, j) => sent' = sent]_vars

\* ----------------------------------------------------------------------- C27
\* every callback has run: nothing is queued on an agent, at the relay or in
\* an inbox
Quiescent ==
  \A p \in Peers :
    /\ inbox[p] = <<>> /\ rcvd[p] = Len(sent[p])
    /\ \A j \in DOMAIN pcs[p] : pcs[p][j].chain = <<>>

\* the description envelopes emitted so far, by either peer
Descriptions(type) == UNION {{<<p, k>> : k \in SdpSent(p, type)} : p \in Peers}

\* the remote answer at the head of agent j of p is applied in this step
AppliesAnswer(p, j) ==
  /\ pcs[p][j].chain # <<>>
  /\ Head(pcs[p][j].chain).op = "setRemoteDescription"
  /\ Head(pcs[p][j].chain).desc.type = "answer"
  /\ OpComplete(p, j, FALSE)

\* C27: in the two-peer run at most one offer and at most one answer are ever
\* emitted, the run comes to rest with exactly one of each, and the step that
\* applies the answer emits nothing, creates no description and invokes no
\* further operation.
C27_ExchangeTerminates ==
  /\ [](Cardinality(Descriptions("offer")) <= 1 /\ Cardinality(Descriptions("answer")) <= 1)
  /\ <>[](/\ Quiescent
          /\ Cardinality(Descriptions("offer")) = 1
          /\ Cardinality(Descriptions("answer")) = 1)
  /\ [][\A p \in Peers : \A j \in DOMAIN pcs[p] :
         AppliesAnswer(p, j) =>
           /\ sent' = sent /\ nCreated' = nCreated
           /\ pcs'[p][j].chain = Tail(pcs[p][j].chain)]_vars

\* the answer has been applied by the offerer and everything is at rest
C27_Witness ==
  /\ Quiescent
  /\ Cardinality(Descriptions("offer")) = 1 /\ Cardinality(Descriptions("answer")) = 1
  /\ \E p \in Peers : pcRef(p) > 0 /\ pcs[p][pcRef(p)].currentRemote.type = "answer"

\* ----------------------------------------------------------------------- C28
\* C28: the envelope a relay handler emits when its setLocalDescription
\* resolves carries the description that handler created and passed to it:
\* an offer of its createOffer on the user-connected path, an answer of its
\* createAnswer on the signal path.
C28_CarriesOwnDescription ==
  [][\A j \in DOMAIN pcs["A"] :
       (Settles(j) /\ HeadIs(j, "setLocalDescription") /\ sent' # sent) =>
         LET t == Head(pcs["A"][j].chain)
             m == sent'["A"][Len(sent'["A"])]
         IN /\ Len(sent'["A"]) = Len(sent["A"]) + 1
            /\ m.kind = t.kind /\ m.nid = t.nid /\ m.run = t.run
            /\ m.data.sdp = t.desc
            /\ t.desc.by = "A" /\ t.desc.n \in 1..nCreated["A"]
            /\ t.desc.type = (IF t.kind = "user-connected" THEN "offer" ELSE "answer")]_vars

\* ----------------------------------------------------------------------- C29
\* C29: every join-room is emitted on the socket of the effect run that makes
\* it and names that socket's room, and the handlers registered on a socket
\* are those of the run that created it, registered once.
C29_StartBelongsToItsRun ==
  \A p \in Peers :
    /\ \A k \in DOMAIN sent[p] :
         sent[p][k].ev = "join-room" =>
           /\ sent[p][k].sock = sent[p][k].run
           /\ sent[p][k].room = socks[p][sent[p][k].sock].room
    /\ \A i \in DOMAIN socks[p] :
         /\ Len(socks[p][i].on) <= 1
         /\ \A n \in DOMAIN socks[p][i].on : socks[p][i].on[n] = i

\* ----------------------------------------------------------------------- C30
\* the remote offer at the head of agent j of p is applied in this step
AppliesOffer(p, j) ==
  /\ pcs[p][j].chain # <<>>
  /\ Head(pcs[p][j].chain).op = "setRemoteDescription"
  /\ Head(pcs[p][j].chain).desc.type = "offer"
  /\ OpComplete(p, j, FALSE)

\* C30: in the two-peer run a remote offer is only ever applied to an agent
\* that is stable, has no local description and no createOffer or
\* setLocalDescription of a user-connected handler waiting on its chain.
C30_NoGlare ==
  [][\A p \in Peers : \A j \in DOMAIN pcs[p] :
       AppliesOffer(p, j) =>
         /\ pcs[p][j].signalingState = "stable"
         /\ localDescription(pcs[p][j]) = NoDesc
         /\ \A k \in DOMAIN pcs[p][j].chain :
              pcs[p][j].chain[k].kind # "user-connected"
         /\ pcs'[p][j].signalingState = "have-remote-offer"]_vars

\* one peer has its local offer outstanding while the other has applied it
C30_Witness ==
  \E p \in Peers : \E q \in Peers \ {p} :
    /\ pcRef(p) > 0 /\ pcs[p][pcRef(p)].signalingState = "have-local-offer"
    /\ pcRef(q) > 0 /\ pcs[q][pcRef(q)].signalingState = "have-remote-offer"
    /\ pcs[q][pcRef(q)].pendingRemote = pcs[p][pcRef(p)].pendingLocal

\* ----------------------------------------------------------------------- C31
\* C31: every signal envelope is emitted on a connected socket and its from
\* is the identifier of that socket.
C31_FromIsSocketId ==
  \A p \in Peers : \A k \in DOMAIN sent[p] :
    sent[p][k].ev = "signal" =>
      /\ sent[p][k].st = "connected"
      /\ sent[p][k].from # Undefined
      /\ sent[p][k].from = SockName(p, sent[p][k].sock)

\* ----------------------------------------------------------------------- C32
\* C32: whenever the component shows a local stream, muted is the negation of
\* its audio track's enabled flag and videoOff the negation of its video
\* track's enabled flag.
C32_FlagsMirrorTracks ==
  (life["A"] \in {"mounted", "reloading"} /\ srcObject("A") > 0) =>
    /\ ui["A"].muted = ~streams["A"][srcObject("A")].audio
    /\ ui["A"].videoOff = ~streams["A"][srcObject("A")].video

\* ----------------------------------------------------------------------- C33
\* the local description agent j of p gathers for has been emitted in an
\* envelope
DescriptionEmitted(p, j) ==
  /\ pcs[p][j].iceFor # NoDesc
  /\ \E k \in DOMAIN sent[p] :
       /\ sent[p][k].ev = "signal"
       /\ sent[p][k].data.sdp = pcs[p][j].iceFor

\* C33: when an agent reports a candidate, the envelope with the local
\* description that agent gathers for has already been emitted, so the
\* candidate envelope follows it in emit order.
C33_DescriptionBeforeCandidates ==
  [][\A p \in Peers : \A j \in DOMAIN pcs[p] :
       IceCandidate(p, j) => DescriptionEmitted(p, j)]_vars

\* ----------------------------------------------------------------------- C34
\* the agent operations the handlers of A start in this step: those queued on
\* an agent and those a closed agent refuses at once
Started ==
  UNION {{pcs'["A"][i].chain[k] :
            k \in DOMAIN pcs'["A"][i].chain \ DOMAIN pcs["A"][i].chain} :
         i \in DOMAIN pcs["A"]}
    \cup (caught'["A"] \ caught["A"])

\* C34: the delivery of a signal envelope emits nothing and changes no
\* description; with an sdp it starts setRemoteDescription of that sdp and
\* nothing else, whatever candidate comes with it; with only a candidate it
\* starts addIceCandidate of that candidate and nothing else; with neither it
\* starts nothing and changes nothing.
C34_DispatchByShape ==
  [][\A s \in DOMAIN socks["A"], u \in RemoteIds, d \in InData :
       RelaySignal("A", s, u, d) =>
         /\ UNCHANGED <<life, roomID, socks, gum, streams, sent, nCreated, ui>>
         /\ DOMAIN pcs'["A"] = DOMAIN pcs["A"]
         /\ \A i \in DOMAIN pcs["A"] :
              /\ AgentState(pcs'["A"][i]) = AgentState(pcs["A"][i])
              /\ pcs'["A"][i].iceLog = pcs["A"][i].iceLog
         /\ d.sdp # NoDesc =>
              /\ Started # {}
              /\ \A t \in Started : /\ t.op = "setRemoteDescription"
                                     /\ t.desc = d.sdp /\ t.cand = NoCand
         /\ (d.sdp = NoDesc /\ d.candidate # NoCand) =>
              /\ Started # {}
              /\ \A t \in Started : /\ t.op = "addIceCandidate"
                                     /\ t.cand = d.candidate /\ t.desc = NoDesc
         /\ (d.sdp = NoDesc /\ d.candidate = NoCand) =>
              /\ Started = {}
              /\ pcs' = pcs /\ caught' = caught]_vars

\* a signal envelope with an sdp was delivered to A and its handler waits for
\* setRemoteDescription
C34_Witness ==
  /\ nDelivered > 0
  /\ \E c \in Chains("A") :
       /\ pcs["A"][c[1]].chain[c[2]].op = "setRemoteDescription"
       /\ pcs["A"][c[1]].chain[c[2]].kind = "signal"

\* ----------------------------------------------------------------------- C35
\* C35: a socket carries relay handlers only once pcRef.current is assigned,
\* each handler's effect run has created its agent, and every operation a
\* handler has started was started on an agent that existed.
C35_HandlersHaveAgent ==
  \A p \in Peers :
    /\ \A i \in DOMAIN socks[p] : \A n \in DOMAIN socks[p][i].on :
         /\ pcRef(p) > 0
         /\ \E j \in DOMAIN pcs[p] : pcs[p][j].run = socks[p][i].on[n]
    /\ \A t \in caught[p] : pcRef(p) > 0 /\ t.pre.ss # ""
    /\ \A c \in Chains(p) : pcs[p][c[1]].chain[c[2]].pre.ss # ""

\* both handlers of A have run: a user-connected and a signal were delivered
\* and started operations on its agent
C35_Witness ==
  LET started == {pcs["A"][c[1]].chain[c[2]].kind : c \in Chains("A")}
                   \cup {t.kind : t \in caught["A"]}
  IN {"user-connected", "signal"} \subseteq started

====
